---- MODULE Spec2Model ----
(***************************************************************************)
(* The LZW coder of lzw.py (compress, uncompress, and the round trip main  *)
(* runs) and the LZW + Huffman pipeline of deflate.py (freq_map,           *)
(* generate_tree with its pop_min, set_binary_code, lempelziv, deflate).   *)
(*                                                                         *)
(* A Python str is the sequence of its code points, chr(i) is the string   *)
(* <<i>>, a dict is a function (an insertion-ordered one, where the order  *)
(* is read, is a sequence of its items), a HuffmanNode is an index into    *)
(* the heap of allocated nodes (None is 0), and each function's locals are *)
(* one record: compress.w is the w of compress.                            *)
(***************************************************************************)
EXTENDS Integers, Sequences, FiniteSets, TLC

\* ------------------------------------------------------------------ bounds
\* Longest string handed to compress / lempelziv.
MaxLen == 5
\* Longest token sequence handed to uncompress or to the entropy coder.
MaxTok == 4
\* Most distinct tokens of a frequency table handed to generate_tree.
MaxSyms == 5
\* Largest count of a frequency table handed to generate_tree.
MaxFreq == 3

\* --------------------------------------------------------------- constants
\* dict_size = 256: the size of the base alphabet, and the first free token.
BaseSize == 256
\* chr() accepts 0 .. 0x10FFFF and raises ValueError outside of it.
MaxCodePoint == 1114111

\* The characters the strings of the model are made of: both ends of the
\* base alphabet and one in the middle.
Alphabet == {0, 97, 255}
\* The tokens the token sequences handed to uncompress are made of: bound
\* ones, the first free ids, and one that is no code point.
DecTokens == {97, 255, 256, 257, 258, MaxCodePoint + 1}
\* The tokens the token sequences handed to the entropy coder are made of.
HuffTokens == {97, 255, 256, 257}
\* '0' and '1', the characters set_binary_code appends to a prefix.
Bit0 == 48
Bit1 == 49

RECURSIVE SeqsUpTo(_, _)
SeqsUpTo(S, n) ==
    IF n = 0 THEN {<<>>}
    ELSE LET shorter == SeqsUpTo(S, n - 1)
         IN  shorter \cup {Append(s, x) : s \in shorter, x \in S}

VARIABLES
    call,        \* the entry point of this run
    pc,          \* the position of the run
    error,       \* the exception that ended the run, "none" while there is none
    compress,    \* the locals of compress
    history,     \* compress's dictionary at its start and after each emitting iteration
    uncompress,  \* the locals of uncompress
    output,      \* what uncompress returned
    lempelziv,   \* the locals of lempelziv
    deflate,     \* the locals of deflate
    generate_tree, \* the locals of generate_tree and of its pop_min
    heap,        \* the HuffmanNode objects allocated so far, by identity
    decoded      \* what decoding deflate's bits along its tree gives

lzwVars == <<compress, history, uncompress, output>>
huffVars == <<lempelziv, deflate, generate_tree, heap, decoded>>
vars == <<call, pc, error, compress, history, uncompress, output,
          lempelziv, deflate, generate_tree, heap, decoded>>

\* ------------------------------------------------------------ lzw.py

\* dict((chr(i), i) for i in range(dict_size))
EncoderDictionary == [s \in {<<i>> : i \in 0 .. BaseSize - 1} |-> s[1]]

\* dict((i, chr(i)) for i in range(dict_size))
DecoderDictionary == [i \in 0 .. BaseSize - 1 |-> <<i>>]

\* The locals of compress after lines 33-36.
CompressFrame(s) ==
    [uncompressed |-> s, i |-> 1, dictionary |-> EncoderDictionary,
     dict_size |-> BaseSize, w |-> <<>>, result |-> <<>>, err |-> "none"]

\* CompressBody with `dict_size += 1` left out: every new entry gets token 256.
CompressBody_NoIncrement(f, c) ==
    LET wc == f.w \o <<c>>
    IN  IF wc \in DOMAIN f.dictionary
        THEN [f EXCEPT !.w = wc, !.i = @ + 1]
        ELSE IF f.w \notin DOMAIN f.dictionary
        THEN [f EXCEPT !.err = "KeyError"]
        ELSE [f EXCEPT !.result = Append(@, f.dictionary[f.w]),
                       !.dictionary = (wc :> f.dict_size) @@ f.dictionary,
                       !.w = <<c>>,
                       !.i = @ + 1]

\* One iteration of `for c in uncompressed` (lines 38-45) on the locals f;
\* dictionary[w] raises KeyError when w is no key.
CompressBody(f, c) ==
    LET wc == f.w \o <<c>>
    IN  IF wc \in DOMAIN f.dictionary
        THEN [f EXCEPT !.w = wc, !.i = @ + 1]
        ELSE IF f.w \notin DOMAIN f.dictionary
        THEN [f EXCEPT !.err = "KeyError"]
        ELSE [f EXCEPT !.result = Append(@, f.dictionary[f.w]),
                       !.dictionary = (wc :> f.dict_size) @@ f.dictionary,
                       !.dict_size = @ + 1,
                       !.w = <<c>>,
                       !.i = @ + 1]

\* Lines 46-47: the token of what is left in w.
CompressFlush(f) ==
    IF f.w = <<>> THEN f
    ELSE IF f.w \notin DOMAIN f.dictionary
    THEN [f EXCEPT !.err = "KeyError"]
    ELSE [f EXCEPT !.result = Append(@, f.dictionary[f.w])]

RECURSIVE CompressRun(_)
CompressRun(f) ==
    IF f.err # "none" THEN f
    ELSE IF f.i > Len(f.uncompressed) THEN CompressFlush(f)
    ELSE CompressRun(CompressBody(f, f.uncompressed[f.i]))

\* compress(s) as a function: its locals when it returns or raises.
CompressOf(s) == CompressRun(CompressFrame(s))

\* The locals of uncompress after lines 69-71.
UncompressFrame(t) ==
    [compressed |-> t, j |-> 1, dictionary |-> DecoderDictionary,
     dict_size |-> BaseSize, w |-> <<>>, result |-> <<>>, err |-> "none"]

\* Lines 77-78: w = chr(compressed[0]); chr raises ValueError outside of
\* 0 .. 0x10FFFF.
UncompressFirst(f) ==
    LET code == f.compressed[1]
    IN  IF code < 0 \/ code > MaxCodePoint
        THEN [f EXCEPT !.err = "ValueError"]
        ELSE [f EXCEPT !.w = <<code>>, !.result = <<(<<code>>)>>, !.j = 2]

\* UncompressBody without the `elif code == dict_size` branch.
UncompressBody_NoKwKwK(f, code) ==
    IF code \notin DOMAIN f.dictionary
    THEN [f EXCEPT !.err = "ValueError"]
    ELSE LET entry == f.dictionary[code]
         IN  [f EXCEPT !.result = Append(@, entry),
                       !.dictionary = (f.dict_size :> (f.w \o <<entry[1]>>)) @@ f.dictionary,
                       !.dict_size = @ + 1,
                       !.w = entry,
                       !.j = @ + 1]

\* UncompressBody binding the new token to w + w[0] instead of w + entry[0].
UncompressBody_WrongEntry(f, code) ==
    IF code \notin DOMAIN f.dictionary /\ code # f.dict_size
    THEN [f EXCEPT !.err = "ValueError"]
    ELSE LET entry == IF code \in DOMAIN f.dictionary
                      THEN f.dictionary[code]
                      ELSE f.w \o <<f.w[1]>>
         IN  [f EXCEPT !.result = Append(@, entry),
                       !.dictionary = (f.dict_size :> (f.w \o <<f.w[1]>>)) @@ f.dictionary,
                       !.dict_size = @ + 1,
                       !.w = entry,
                       !.j = @ + 1]

\* UncompressBody accepting any unbound code as the KwKwK case.
UncompressBody_AnyUnbound(f, code) ==
    LET entry == IF code \in DOMAIN f.dictionary
                 THEN f.dictionary[code]
                 ELSE f.w \o <<f.w[1]>>
    IN  [f EXCEPT !.result = Append(@, entry),
                  !.dictionary = (f.dict_size :> (f.w \o <<entry[1]>>)) @@ f.dictionary,
                  !.dict_size = @ + 1,
                  !.w = entry,
                  !.j = @ + 1]

\* One iteration of `for code in compressed[1:]` (lines 81-95).
UncompressBody(f, code) ==
    IF code \notin DOMAIN f.dictionary /\ code # f.dict_size
    THEN [f EXCEPT !.err = "ValueError"]
    ELSE LET entry == IF code \in DOMAIN f.dictionary
                      THEN f.dictionary[code]
                      ELSE f.w \o <<f.w[1]>>
         IN  [f EXCEPT !.result = Append(@, entry),
                       !.dictionary = (f.dict_size :> (f.w \o <<entry[1]>>)) @@ f.dictionary,
                       !.dict_size = @ + 1,
                       !.w = entry,
                       !.j = @ + 1]

RECURSIVE Join(_)
\* ''.join(result)
Join(parts) == IF parts = <<>> THEN <<>> ELSE Head(parts) \o Join(Tail(parts))

\* ------------------------------------------------------------ deflate.py

\* HuffmanNode(freq, data, left, right); left and right are heap indices, 0 is None.
HuffmanNode(freq, data, left, right) ==
    [freq |-> freq, data |-> data, left |-> left, right |-> right]

\* One iteration of freq_map's loop (lines 11-14) on the dict built so far,
\* kept in insertion order as a sequence of items.
FreqMapBody(dico, c) ==
    IF \E k \in DOMAIN dico : dico[k].key = c
    THEN [k \in DOMAIN dico |->
            IF dico[k].key = c THEN [dico[k] EXCEPT !.val = @ + 1] ELSE dico[k]]
    ELSE Append(dico, [key |-> c, val |-> 1])

RECURSIVE FreqMapRun(_, _)
FreqMapRun(message, dico) ==
    IF message = <<>> THEN dico
    ELSE FreqMapRun(Tail(message), FreqMapBody(dico, Head(message)))

\* freq_map(message), lines 8-15.
freq_map(message) == FreqMapRun(message, <<>>)

\* Lines 20-22: one leaf per key, in the order of the table; the nodes are the
\* keys of list_nodes, their weights its values.
LeafHeap(table) == [k \in DOMAIN table |-> HuffmanNode(table[k].val, table[k].key, 0, 0)]
LeafPool(table) == [k \in DOMAIN table |-> [node |-> k, val |-> table[k].val]]

MinOf(S) == CHOOSE x \in S : \A y \in S : x <= y
MaxOf(S) == CHOOSE x \in S : \A y \in S : x >= y

\* s without its k-th item.
RemoveAt(s, k) == SubSeq(s, 1, k - 1) \o SubSeq(s, k + 1, Len(s))

\* pop_min (lines 25-32) on the heap h and the pool list_nodes: the loop has
\* no break, so min_node ends as the last node of the pool, in insertion
\* order, whose freq is the minimum; list_nodes.pop(None) raises KeyError.
pop_min(h, list_nodes) ==
    LET mini == MinOf({list_nodes[k].val : k \in DOMAIN list_nodes})
        hits == {k \in DOMAIN list_nodes : h[list_nodes[k].node].freq = mini}
    IN  IF hits = {}
        THEN [min_node |-> 0, list_nodes |-> list_nodes, err |-> "KeyError"]
        ELSE [min_node |-> list_nodes[MaxOf(hits)].node,
              list_nodes |-> RemoveAt(list_nodes, MaxOf(hits)),
              err |-> "none"]

\* MergedNode with the children exchanged.
MergedNode_Swapped(h, min_node, min2_node) ==
    HuffmanNode(h[min_node].freq + h[min2_node].freq, <<>>, min2_node, min_node)

\* Line 37: the node that joins the two popped ones.
MergedNode(h, min_node, min2_node) ==
    HuffmanNode(h[min_node].freq + h[min2_node].freq, <<>>, min_node, min2_node)

RECURSIVE set_binary_code_SameBit(_, _, _, _)
\* set_binary_code appending '0' on both sides.
set_binary_code_SameBit(h, node, prefix, mapping) ==
    IF h[node].left = 0 /\ h[node].right = 0
    THEN (h[node].data :> prefix) @@ mapping
    ELSE set_binary_code_SameBit(h, h[node].right, Append(prefix, Bit0),
             set_binary_code_SameBit(h, h[node].left, Append(prefix, Bit0), mapping))

RECURSIVE set_binary_code(_, _, _, _)
\* set_binary_code (lines 45-50) on the heap h; returns mapping as it leaves it.
set_binary_code(h, node, prefix, mapping) ==
    IF h[node].left = 0 /\ h[node].right = 0
    THEN (h[node].data :> prefix) @@ mapping
    ELSE set_binary_code(h, h[node].right, Append(prefix, Bit1),
             set_binary_code(h, h[node].left, Append(prefix, Bit0), mapping))

RECURSIVE EncodeRun(_, _)
\* Lines 89-91 of deflate: result += dico[c] for each c of codeLZ.
EncodeRun(codeLZ, dico) ==
    IF codeLZ = <<>> THEN <<>>
    ELSE dico[Head(codeLZ)] \o EncodeRun(Tail(codeLZ), dico)

\* The locals of lempelziv after lines 57-60.
LempelzivFrame(s) ==
    [uncompressed |-> s, i |-> 1, dico |-> EncoderDictionary,
     dict_size |-> BaseSize, w |-> <<>>, result |-> <<>>, err |-> "none"]

\* One iteration of lempelziv's loop (lines 62-69).
LempelzivBody(f, c) ==
    LET wc == f.w \o <<c>>
    IN  IF wc \in DOMAIN f.dico
        THEN [f EXCEPT !.w = wc, !.i = @ + 1]
        ELSE IF f.w \notin DOMAIN f.dico
        THEN [f EXCEPT !.err = "KeyError"]
        ELSE [f EXCEPT !.result = Append(@, f.dico[f.w]),
                       !.dico = (wc :> f.dict_size) @@ f.dico,
                       !.dict_size = @ + 1,
                       !.w = <<c>>,
                       !.i = @ + 1]

\* Lines 70-71.
LempelzivFlush(f) ==
    IF f.w = <<>> THEN f
    ELSE IF f.w \notin DOMAIN f.dico
    THEN [f EXCEPT !.err = "KeyError"]
    ELSE [f EXCEPT !.result = Append(@, f.dico[f.w])]

RECURSIVE Walk(_, _, _, _, _)
\* The decoder of the bits: from the root, Bit0 goes left and Bit1 right, a
\* leaf emits its token and restarts at the root, until the bits are
\* exhausted; ending inside the tree is TruncatedStream.
Walk(h, root, node, bits, out) ==
    IF bits = <<>>
    THEN [tokens |-> out, err |-> IF node = root THEN "none" ELSE "TruncatedStream"]
    ELSE LET next == IF Head(bits) = Bit0 THEN h[node].left ELSE h[node].right
         IN  IF next = 0
             THEN [tokens |-> out, err |-> "NoChild"]
             ELSE IF h[next].left = 0 /\ h[next].right = 0
             THEN Walk(h, root, root, Tail(bits), Append(out, h[next].data))
             ELSE Walk(h, root, next, Tail(bits), out)

entropy_decode(h, root, bits) == Walk(h, root, root, bits, <<>>)

\* ------------------------------------------------------------ the runs

Idle == [uncompressed |-> <<>>, i |-> 0, dictionary |-> <<>>, dict_size |-> 0,
         w |-> <<>>, result |-> <<>>, err |-> "none"]
IdleU == [compressed |-> <<>>, j |-> 0, dictionary |-> <<>>, dict_size |-> 0,
          w |-> <<>>, result |-> <<>>, err |-> "none"]
IdleLZ == [uncompressed |-> <<>>, i |-> 0, dico |-> <<>>, dict_size |-> 0,
           w |-> <<>>, result |-> <<>>, err |-> "none"]
IdleDeflate == [codeLZ |-> <<>>, frequences |-> <<>>, arbre |-> 0,
                dico |-> <<>>, result |-> <<>>]
IdleTree == [freq_map |-> <<>>, list_nodes |-> <<>>, min_node |-> 0, min2_node |-> 0]
NotDecoded == [tokens |-> <<>>, err |-> "none"]

\* The frequency tables of at most n keys, the k-th key being the token
\* BaseSize - 2 + k, with counts 1 .. MaxFreq.
RECURSIVE Tables(_)
Tables(n) ==
    IF n = 0 THEN {<<>>}
    ELSE LET shorter == Tables(n - 1)
         IN  shorter \cup
             {Append(t, [key |-> BaseSize - 1 + Len(t), val |-> v]) :
                 t \in {x \in shorter : Len(x) = n - 1}, v \in 1 .. MaxFreq}

IdleLzw ==
    /\ compress = Idle
    /\ history = <<>>
    /\ uncompress = IdleU

IdleHuff ==
    /\ lempelziv = IdleLZ
    /\ deflate = IdleDeflate
    /\ generate_tree = IdleTree

\* main (lines 136-142): compress(test_string), then uncompress of its result.
MainInit ==
    /\ call = "main"
    /\ pc = "compress"
    /\ \E s \in SeqsUpTo(Alphabet, MaxLen) : compress = CompressFrame(s)
    /\ history = <<EncoderDictionary>>
    /\ uncompress = IdleU
    /\ IdleHuff

\* uncompress called on a token sequence of any origin.
UncompressInit ==
    /\ call = "uncompress"
    /\ pc = "uncompress"
    /\ compress = Idle
    /\ history = <<>>
    /\ \E t \in SeqsUpTo(DecTokens, MaxTok) : uncompress = UncompressFrame(t)
    /\ IdleHuff

\* deflate(message): line 79 enters lempelziv.
DeflateInit ==
    /\ call = "deflate"
    /\ pc = "lempelziv"
    /\ \E s \in SeqsUpTo(Alphabet, MaxLen) : lempelziv = LempelzivFrame(s)
    /\ deflate = IdleDeflate
    /\ generate_tree = IdleTree
    /\ IdleLzw

\* Lines 82-92 of deflate on a token sequence of any origin.
TokensInit ==
    /\ call = "tokens"
    /\ pc = "freq_map"
    /\ lempelziv = IdleLZ
    /\ \E t \in SeqsUpTo(HuffTokens, MaxTok) : deflate = [IdleDeflate EXCEPT !.codeLZ = t]
    /\ generate_tree = IdleTree
    /\ IdleLzw

\* generate_tree, then set_binary_code, on a frequency table of any origin.
TreeInit ==
    /\ call = "generate_tree"
    /\ pc = "generate_tree"
    /\ lempelziv = IdleLZ
    /\ \E t \in Tables(MaxSyms) :
          /\ deflate = [IdleDeflate EXCEPT !.frequences = t]
          /\ generate_tree = [IdleTree EXCEPT !.freq_map = t]
    /\ IdleLzw

Init ==
    /\ error = "none"
    /\ output = <<>>
    /\ heap = <<>>
    /\ decoded = NotDecoded
    /\ (MainInit \/ UncompressInit \/ DeflateInit \/ TokensInit \/ TreeInit)

CompressLoop ==
    /\ pc = "compress"
    /\ compress.i <= Len(compress.uncompressed)
    /\ LET f == CompressBody(compress, compress.uncompressed[compress.i])
       IN  /\ compress' = f
           /\ history' = IF Len(f.result) > Len(compress.result)
                         THEN Append(history, f.dictionary)
                         ELSE history
           /\ error' = f.err
           /\ pc' = IF f.err = "none" THEN pc ELSE "raised"
    /\ UNCHANGED <<call, uncompress, output, huffVars>>

\* Lines 46-48, and main's call of uncompress on the result (line 139).
CompressReturn ==
    /\ pc = "compress"
    /\ compress.i > Len(compress.uncompressed)
    /\ LET f == CompressFlush(compress)
       IN  /\ compress' = f
           /\ error' = f.err
           /\ IF f.err = "none"
              THEN /\ pc' = "uncompress"
                   /\ uncompress' = UncompressFrame(f.result)
              ELSE /\ pc' = "raised"
                   /\ UNCHANGED uncompress
    /\ UNCHANGED <<call, history, output, huffVars>>

\* Lines 73-74: nothing to decode.
UncompressEmpty ==
    /\ pc = "uncompress"
    /\ uncompress.j = 1
    /\ uncompress.compressed = <<>>
    /\ output' = <<>>
    /\ pc' = "returned"
    /\ UNCHANGED <<call, error, compress, history, uncompress, huffVars>>

\* Lines 77-78: the first token.
UncompressStart ==
    /\ pc = "uncompress"
    /\ uncompress.j = 1
    /\ uncompress.compressed # <<>>
    /\ LET f == UncompressFirst(uncompress)
       IN  /\ uncompress' = f
           /\ error' = f.err
           /\ pc' = IF f.err = "none" THEN pc ELSE "raised"
    /\ UNCHANGED <<call, compress, history, output, huffVars>>

UncompressLoop ==
    /\ pc = "uncompress"
    /\ uncompress.j > 1
    /\ uncompress.j <= Len(uncompress.compressed)
    /\ LET f == UncompressBody(uncompress, uncompress.compressed[uncompress.j])
       IN  /\ uncompress' = f
           /\ error' = f.err
           /\ pc' = IF f.err = "none" THEN pc ELSE "raised"
    /\ UNCHANGED <<call, compress, history, output, huffVars>>

\* Line 97.
UncompressReturn ==
    /\ pc = "uncompress"
    /\ uncompress.j > 1
    /\ uncompress.j > Len(uncompress.compressed)
    /\ output' = Join(uncompress.result)
    /\ pc' = "returned"
    /\ UNCHANGED <<call, error, compress, history, uncompress, huffVars>>

LempelzivLoop ==
    /\ pc = "lempelziv"
    /\ lempelziv.i <= Len(lempelziv.uncompressed)
    /\ LET f == LempelzivBody(lempelziv, lempelziv.uncompressed[lempelziv.i])
       IN  /\ lempelziv' = f
           /\ error' = f.err
           /\ pc' = IF f.err = "none" THEN pc ELSE "raised"
    /\ UNCHANGED <<call, lzwVars, deflate, generate_tree, heap, decoded>>

\* Lines 70-72, and deflate's codeLZ, dicoLZ = lempelziv(message) (line 79).
LempelzivReturn ==
    /\ pc = "lempelziv"
    /\ lempelziv.i > Len(lempelziv.uncompressed)
    /\ LET f == LempelzivFlush(lempelziv)
       IN  /\ lempelziv' = f
           /\ error' = f.err
           /\ IF f.err = "none"
              THEN /\ pc' = "freq_map"
                   /\ deflate' = [deflate EXCEPT !.codeLZ = f.result]
              ELSE /\ pc' = "raised"
                   /\ UNCHANGED deflate
    /\ UNCHANGED <<call, lzwVars, generate_tree, heap, decoded>>

\* Lines 83-85 of deflate: frequences = freq_map(codeLZ), and the call of
\* generate_tree(frequences).
DeflateFreqMap ==
    /\ pc = "freq_map"
    /\ LET frequences == freq_map(deflate.codeLZ)
       IN  /\ deflate' = [deflate EXCEPT !.frequences = frequences]
           /\ generate_tree' = [generate_tree EXCEPT !.freq_map = frequences]
    /\ pc' = "generate_tree"
    /\ UNCHANGED <<call, error, lzwVars, lempelziv, heap, decoded>>

\* Lines 20-22 of generate_tree.
GenerateTreeLeaves ==
    /\ pc = "generate_tree"
    /\ heap' = LeafHeap(generate_tree.freq_map)
    /\ generate_tree' = [generate_tree EXCEPT !.list_nodes = LeafPool(generate_tree.freq_map)]
    /\ pc' = "loop"
    /\ UNCHANGED <<call, error, lzwVars, lempelziv, deflate, decoded>>

\* Lines 34-35: the loop test, and min_node = pop_min().
GenerateTreePop ==
    /\ pc = "loop"
    /\ Len(generate_tree.list_nodes) > 1
    /\ LET r == pop_min(heap, generate_tree.list_nodes)
       IN  /\ generate_tree' = [generate_tree EXCEPT !.min_node = r.min_node,
                                                     !.list_nodes = r.list_nodes]
           /\ error' = r.err
           /\ pc' = IF r.err = "none" THEN "pop2" ELSE "raised"
    /\ UNCHANGED <<call, lzwVars, lempelziv, deflate, heap, decoded>>

\* Line 36: min2_node = pop_min().
GenerateTreePop2 ==
    /\ pc = "pop2"
    /\ LET r == pop_min(heap, generate_tree.list_nodes)
       IN  /\ generate_tree' = [generate_tree EXCEPT !.min2_node = r.min_node,
                                                     !.list_nodes = r.list_nodes]
           /\ error' = r.err
           /\ pc' = IF r.err = "none" THEN "merge" ELSE "raised"
    /\ UNCHANGED <<call, lzwVars, lempelziv, deflate, heap, decoded>>

\* Lines 37-38: the new node, inserted last into list_nodes.
GenerateTreeMerge ==
    /\ pc = "merge"
    /\ LET node == MergedNode(heap, generate_tree.min_node, generate_tree.min2_node)
       IN  /\ heap' = Append(heap, node)
           /\ generate_tree' =
                [generate_tree EXCEPT !.list_nodes =
                    Append(@, [node |-> Len(heap) + 1,
                               val |-> heap[generate_tree.min_node].freq
                                       + heap[generate_tree.min2_node].freq])]
    /\ pc' = "loop"
    /\ UNCHANGED <<call, error, lzwVars, lempelziv, deflate, decoded>>

\* Line 41: list(list_nodes.keys())[0], an IndexError on an empty pool; the
\* caller keeps the root as arbre (line 85).
GenerateTreeReturn ==
    /\ pc = "loop"
    /\ Len(generate_tree.list_nodes) <= 1
    /\ IF generate_tree.list_nodes = <<>>
       THEN /\ error' = "IndexError"
            /\ pc' = "raised"
            /\ UNCHANGED deflate
       ELSE /\ deflate' = [deflate EXCEPT !.arbre = generate_tree.list_nodes[1].node]
            /\ pc' = "set_binary_code"
            /\ UNCHANGED error
    /\ UNCHANGED <<call, lzwVars, lempelziv, generate_tree, heap, decoded>>

\* Line 86: set_binary_code(arbre, '', dico) on dico = {}.
DeflateSetBinaryCode ==
    /\ pc = "set_binary_code"
    /\ deflate' = [deflate EXCEPT !.dico = set_binary_code(heap, deflate.arbre, <<>>, <<>>)]
    /\ pc' = IF call = "generate_tree" THEN "returned" ELSE "encode"
    /\ UNCHANGED <<call, error, lzwVars, lempelziv, generate_tree, heap, decoded>>

\* Lines 89-92.
DeflateEncode ==
    /\ pc = "encode"
    /\ deflate' = [deflate EXCEPT !.result = EncodeRun(deflate.codeLZ, deflate.dico)]
    /\ pc' = "decode"
    /\ UNCHANGED <<call, error, lzwVars, lempelziv, generate_tree, heap, decoded>>

\* The bits of deflate's result decoded along arbre.
EntropyDecode ==
    /\ pc = "decode"
    /\ decoded' = entropy_decode(heap, deflate.arbre, deflate.result)
    /\ pc' = "returned"
    /\ UNCHANGED <<call, error, lzwVars, lempelziv, deflate, generate_tree, heap>>

Next ==
    \/ CompressLoop
    \/ CompressReturn
    \/ UncompressEmpty
    \/ UncompressStart
    \/ UncompressLoop
    \/ UncompressReturn
    \/ LempelzivLoop
    \/ LempelzivReturn
    \/ DeflateFreqMap
    \/ GenerateTreeLeaves
    \/ GenerateTreePop
    \/ GenerateTreePop2
    \/ GenerateTreeMerge
    \/ GenerateTreeReturn
    \/ DeflateSetBinaryCode
    \/ DeflateEncode
    \/ EntropyDecode

Spec == Init /\ [][Next]_vars

\* ------------------------------------------------------------ the claims

LzwCalls == {"main", "uncompress"}
HuffCalls == {"deflate", "tokens", "generate_tree"}

\* C1: LZW round trip: for every string s over the base alphabet, the empty
\* one included, uncompress(compress(s)) raises no error and returns s.
C1_RoundTrip ==
    call = "main" =>
        /\ error = "none"
        /\ pc # "raised"
        /\ pc = "returned" => output = compress.uncompressed

\* A round trip of three or more characters whose tokens hold a KwKwK one:
\* the token at position k is the decoder's next free id, BaseSize + k - 2.
C1_Witness ==
    /\ call = "main"
    /\ pc = "returned"
    /\ Len(output) >= 3
    /\ output = compress.uncompressed
    /\ \E k \in 2 .. Len(uncompress.compressed) :
          uncompress.compressed[k] = BaseSize + k - 2

Keys(table) == {table[k].key : k \in DOMAIN table}
IsPrefix(a, b) == Len(a) <= Len(b) /\ SubSeq(b, 1, Len(a)) = a

\* set_binary_code has filled deflate's dico.
CodesBuilt == call \in HuffCalls /\ pc \in {"encode", "decode", "returned"}

\* C2: entropy round trip: for every non-empty token sequence, one distinct
\* token only included, decoding the concatenated codes along the tree gives
\* the token sequence back.
C2_EntropyRoundTrip ==
    (call \in {"tokens", "deflate"} /\ pc = "returned" /\ deflate.codeLZ # <<>>) =>
        /\ decoded.err = "none"
        /\ decoded.tokens = deflate.codeLZ

\* With two or more distinct tokens the round trip of C2 does hold: the
\* sequences it loses are exactly those of one distinct token.
RoundTripOfTwoDistinct ==
    (call \in {"tokens", "deflate"} /\ pc = "returned"
        /\ Cardinality(Keys(deflate.frequences)) >= 2) =>
        /\ decoded.err = "none"
        /\ decoded.tokens = deflate.codeLZ

\* C3: the code table of a non-empty frequency table has exactly the tokens of
\* the table as keys, and the codes of two distinct tokens differ and neither
\* is a prefix of the other.
C3_PrefixFree ==
    CodesBuilt =>
        /\ DOMAIN deflate.dico = Keys(deflate.frequences)
        /\ \A a, b \in DOMAIN deflate.dico :
              a # b => /\ deflate.dico[a] # deflate.dico[b]
                       /\ ~IsPrefix(deflate.dico[a], deflate.dico[b])

\* A code table of three or more tokens.
C3_Witness ==
    /\ CodesBuilt
    /\ Cardinality(DOMAIN deflate.dico) >= 3
    /\ Cardinality(Keys(deflate.frequences)) >= 3

\* uncompress is about to process the token `code`.
AtToken == pc = "uncompress" /\ uncompress.j >= 1
           /\ uncompress.j <= Len(uncompress.compressed)
CurrentToken == uncompress.compressed[uncompress.j]

\* C4: a token that is unbound when it is processed, at any position, the
\* first included, and is not the valid KwKwK case (the next free id, with a
\* previously decoded string at hand) makes uncompress raise ValueError and
\* return nothing.
C4_MalformedRejected ==
    [][(/\ AtToken
        /\ CurrentToken \notin DOMAIN uncompress.dictionary
        /\ ~(CurrentToken = uncompress.dict_size /\ uncompress.j > 1))
       => (pc' = "raised" /\ error' = "ValueError" /\ output' = <<>>)]_vars

\* From the second token on C4's statement holds: the first token alone is
\* let through unbound.
LaterTokensRejected ==
    [][(/\ AtToken
        /\ uncompress.j > 1
        /\ CurrentToken \notin DOMAIN uncompress.dictionary
        /\ CurrentToken # uncompress.dict_size)
       => (pc' = "raised" /\ error' = "ValueError" /\ output' = <<>>)]_vars

\* uncompress accepts t exactly when its first token is a code point and every
\* later token, the k-th, is bound or the next free id: 0 .. BaseSize + k - 2.
WellFormed(t) ==
    \/ t = <<>>
    \/ /\ t[1] >= 0
       /\ t[1] <= MaxCodePoint
       /\ \A k \in 2 .. Len(t) : t[k] >= 0 /\ t[k] <= BaseSize + k - 2

UncompressEnded == call \in LzwCalls /\ pc \in {"returned", "raised"}

TreeEnded ==
    /\ call \in HuffCalls
    /\ pc \in {"raised", "set_binary_code", "encode", "decode", "returned"}

\* C6: generate_tree on an empty frequency table fails with the EmptyAlphabet
\* error and returns no tree, and on a non-empty one it returns a root.
C6_EmptyAlphabet ==
    TreeEnded =>
        IF generate_tree.freq_map = <<>>
        THEN pc = "raised" /\ error = "EmptyAlphabet" /\ deflate.arbre = 0
        ELSE pc # "raised" /\ error = "none" /\ deflate.arbre \in DOMAIN heap

\* What generate_tree does do: IndexError on the empty table, a root otherwise.
FailsOnlyOnEmpty ==
    TreeEnded =>
        IF generate_tree.freq_map = <<>>
        THEN pc = "raised" /\ error = "IndexError" /\ deflate.arbre = 0
        ELSE pc # "raised" /\ error = "none" /\ deflate.arbre \in DOMAIN heap

\* The places in the pool of the nodes of minimum weight.
MinHits ==
    LET pool == generate_tree.list_nodes
    IN  {k \in DOMAIN pool :
            \A m \in DOMAIN pool : heap[pool[k].node].freq <= heap[pool[m].node].freq}

\* C7: a pop_min called while two or more nodes of the pool share the minimum
\* weight removes and returns the one inserted earliest.
C7_EarliestOnTie ==
    [][(/\ call \in HuffCalls
        /\ \/ pc = "loop" /\ Len(generate_tree.list_nodes) > 1
           \/ pc = "pop2"
        /\ Cardinality(MinHits) >= 2)
       => LET first == generate_tree.list_nodes[MinOf(MinHits)].node
              popped == IF pc = "loop" THEN generate_tree'.min_node
                                       ELSE generate_tree'.min2_node
          IN  /\ popped = first
              /\ \A k \in DOMAIN generate_tree'.list_nodes :
                    generate_tree'.list_nodes[k].node # first]_vars

\* What pop_min does do on a tie: it removes the node inserted latest.
LatestOnTie ==
    [][(/\ call \in HuffCalls
        /\ \/ pc = "loop" /\ Len(generate_tree.list_nodes) > 1
           \/ pc = "pop2")
       => LET last == generate_tree.list_nodes[MaxOf(MinHits)].node
              popped == IF pc = "loop" THEN generate_tree'.min_node
                                       ELSE generate_tree'.min2_node
          IN  /\ popped = last
              /\ \A k \in DOMAIN generate_tree'.list_nodes :
                    generate_tree'.list_nodes[k].node # last]_vars

Leaves == Len(generate_tree.freq_map)

\* C8: the two nodes an iteration removes weigh no more than any node left
\* in the pool, the new node has them as children, the first removed on the
\* left, so left.freq <= right.freq, and weighs their sum; the pool loses one
\* node per iteration until the root alone is left.
C8_MergeStep ==
    call \in HuffCalls =>
        /\ pc = "merge" =>
              /\ heap[generate_tree.min_node].freq <= heap[generate_tree.min2_node].freq
              /\ \A k \in DOMAIN generate_tree.list_nodes :
                    heap[generate_tree.min2_node].freq
                        <= heap[generate_tree.list_nodes[k].node].freq
              /\ Len(generate_tree.list_nodes) = 2 * Leaves - Len(heap) - 2
        /\ (pc = "loop" /\ Len(heap) > Leaves) =>
              /\ heap[Len(heap)].left = generate_tree.min_node
              /\ heap[Len(heap)].right = generate_tree.min2_node
              /\ generate_tree.list_nodes[Len(generate_tree.list_nodes)]
                    = [node |-> Len(heap),
                       val |-> heap[generate_tree.min_node].freq
                               + heap[generate_tree.min2_node].freq]
        /\ \A n \in Leaves + 1 .. Len(heap) :
              /\ heap[n].left # 0 /\ heap[n].right # 0
              /\ heap[n].freq = heap[heap[n].left].freq + heap[heap[n].right].freq
              /\ heap[heap[n].left].freq <= heap[heap[n].right].freq
        /\ pc = "loop" => Len(generate_tree.list_nodes) = 2 * Leaves - Len(heap)
        /\ (TreeEnded /\ pc # "raised") =>
              /\ Len(generate_tree.list_nodes) = 1
              /\ deflate.arbre = generate_tree.list_nodes[1].node

\* After the second merge of a table, the two nodes merged being of
\* different weights.
C8_Witness ==
    /\ call \in HuffCalls
    /\ pc = "loop"
    /\ Len(heap) >= Leaves + 2
    /\ heap[generate_tree.min_node].freq < heap[generate_tree.min2_node].freq

\* The tokens of the dictionary d are 0 .. n - 1, one per string.
OneToOne(d, n) ==
    /\ {d[s] : s \in DOMAIN d} = 0 .. n - 1
    /\ Cardinality(DOMAIN d) = n

\* From (d, n, r) to (d2, n2, r2): no entry removed or rebound, a new entry
\* bound to n, above every token bound before, and every token emitted below n.
Grows(d, n, r, d2, n2, r2) ==
    /\ \A s \in DOMAIN d : s \in DOMAIN d2 /\ d2[s] = d[s]
    /\ \A s \in DOMAIN d2 \ DOMAIN d :
          /\ d2[s] = n
          /\ n2 = n + 1
          /\ \A t \in DOMAIN d : d[t] < d2[s]
    /\ n2 >= n
    /\ Len(r2) >= Len(r)
    /\ \A k \in Len(r) + 1 .. Len(r2) : r2[k] < n

\* C9: at every step of compress and of lempelziv the dictionary is one to
\* one onto 0 .. dict_size - 1, a new entry gets the token dict_size, above
\* all tokens before it, no entry is removed or rebound, and every token is
\* below dict_size when it is emitted.
C9_DictionaryInvariant ==
    /\ [](/\ OneToOne(compress.dictionary, compress.dict_size)
          /\ OneToOne(lempelziv.dico, lempelziv.dict_size))
    /\ [][/\ Grows(compress.dictionary, compress.dict_size, compress.result,
                   compress'.dictionary, compress'.dict_size, compress'.result)
          /\ Grows(lempelziv.dico, lempelziv.dict_size, lempelziv.result,
                   lempelziv'.dico, lempelziv'.dict_size, lempelziv'.result)]_vars

\* compress has emitted two tokens and bound two new entries.
C9_Witness ==
    /\ call = "main"
    /\ Len(compress.result) >= 2
    /\ compress.dict_size >= BaseSize + 2

\* dec (token to string) is the inverse of enc (string to token).
InverseOf(dec, enc) ==
    /\ DOMAIN dec = {enc[s] : s \in DOMAIN enc}
    /\ \A s \in DOMAIN enc : dec[enc[s]] = s

\* C10: once uncompress has processed i tokens of compress(s) its dictionary
\* is the inverse of compress's as it was after the iteration that emitted
\* token i - 1, and when it returns, of the dictionary compress ended with.
C10_DecoderRebuilds ==
    (call = "main" /\ pc \in {"uncompress", "returned"} /\ uncompress.j >= 2) =>
        /\ InverseOf(uncompress.dictionary, history[uncompress.j - 1])
        /\ pc = "returned" => InverseOf(uncompress.dictionary, compress.dictionary)

\* uncompress has returned with two or more entries rebuilt.
C10_Witness ==
    /\ call = "main"
    /\ pc = "returned"
    /\ uncompress.dict_size >= BaseSize + 2
    /\ Len(history) >= 3

====
